---- MODULE Spec2Model ----
(***************************************************************************)
(* Model of app/routes.py: the blueprint "main" with its two view          *)
(* functions, index and klassement, served by Flask's request dispatch.    *)
(*                                                                         *)
(* A request path is the sequence of its tokens: "/" and segment names,    *)
(* so "/klassement" is <<"/", "klassement">> and "//" is <<"/", "/">>.     *)
(* A response body is a record [page, context]: the rendered template's    *)
(* name and the context it was rendered with; the empty body has page "".  *)
(***************************************************************************)
EXTENDS Integers, Sequences, FiniteSets, TLC

VARIABLES rules,      \* the blueprint's routing table, in registration order
          templates,  \* the template files the Template Renderer can resolve
          db,         \* operations invoked on the Data Store, in order
          pc,         \* per worker: "idle", "routing", "view" or "done"
          req,        \* per worker: the request being handled
          endpoint,   \* per worker: the endpoint the request was routed to
          resp,       \* per worker: the response
          calls,      \* per worker: collaborator calls made for the request
          seen        \* per GET request to a registered path: responses sent

vars == <<rules, templates, db, pc, req, endpoint, resp, calls, seen>>

----------------------------------------------------------------------------
(* Bounds *)

NumWorkers == 2
MaxPathLen == 3

Workers == 1..NumWorkers

----------------------------------------------------------------------------
(* Inputs *)

Methods == {"GET", "HEAD", "OPTIONS", "POST", "PUT", "DELETE"}
Tokens == {"/", "klassement", "other"}
Queries == {"", "page=2"}
TemplateNames == {"index.html", "klassement.html"}

WellFormed(p) ==
    /\ p[1] = "/"
    /\ \A i \in 1..(Len(p) - 1) : p[i] = "/" \/ p[i + 1] = "/"

Paths ==
    UNION { {p \in [1..n -> Tokens] : WellFormed(p)} : n \in 1..MaxPathLen }

Requests == [method : Methods, path : Paths, query : Queries]

RootPath == <<"/">>
KlassementPath == <<"/", "klassement">>
RegisteredPaths == {RootPath, KlassementPath}

GetRequests == {r \in Requests : r.method = "GET" /\ r.path \in RegisteredPaths}

----------------------------------------------------------------------------
(* Template Renderer and Data Store (collaborators) *)

EmptyContext == {}
EmptyBody == [page |-> "", context |-> EmptyContext]
NoRequest == [method |-> "", path |-> <<>>, query |-> ""]
NoResponse == [status |-> 0, body |-> EmptyBody, allow |-> {}]

ErrorPage(name) == [page |-> name, context |-> EmptyContext]

\* render_template(name, **context): the page, or TemplateNotFound.
render_template(tpls, name, context) ==
    IF name \in tpls
    THEN [ok |-> TRUE, html |-> [page |-> name, context |-> context]]
    ELSE [ok |-> FALSE, html |-> EmptyBody]

----------------------------------------------------------------------------
(* View functions.  A view sees the request, the Data Store and the        *)
(* templates; it yields the collaborator calls it makes, the Data Store    *)
(* operations it invokes, and either the body it returns or the exception  *)
(* it lets escape.                                                         *)

RenderCall(name, context) ==
    [fn |-> "render_template", name |-> name, context |-> context]

\* return render_template(name, **context), nothing caught
ReturnRender(tpls, name, context, ops) ==
    LET r == render_template(tpls, name, context)
    IN  [calls |-> <<RenderCall(name, context)>>,
         dbOps |-> ops,
         raised |-> ~r.ok,
         body |-> r.html]

index_swapped(request, store, tpls) ==
    ReturnRender(tpls, "klassement.html", EmptyContext, <<>>)

index_counting(request, store, tpls) ==
    ReturnRender(tpls, "index.html", {<<"hits", Len(store)>>}, <<"insert">>)

index_fallback(request, store, tpls) ==
    LET v == ReturnRender(tpls, "index.html", EmptyContext, <<>>)
    IN  IF v.raised
        THEN [v EXCEPT !.raised = FALSE, !.body = ErrorPage("fallback")]
        ELSE v

index_query(request, store, tpls) ==
    ReturnRender(tpls, "index.html", {<<"query", request.query>>}, <<>>)

index(request, store, tpls) ==
    ReturnRender(tpls, "index.html", EmptyContext, <<>>)

klassement_swapped(request, store, tpls) ==
    ReturnRender(tpls, "index.html", EmptyContext, <<>>)

klassement_listing(request, store, tpls) ==
    ReturnRender(tpls, "klassement.html", EmptyContext, <<"select Listing">>)

klassement_counting(request, store, tpls) ==
    ReturnRender(tpls, "klassement.html", {<<"hits", Len(store)>>}, <<"insert">>)

klassement(request, store, tpls) ==
    ReturnRender(tpls, "klassement.html", EmptyContext, <<>>)

view_functions(name, request, store, tpls) ==
    IF name = "index" THEN index(request, store, tpls)
    ELSE klassement(request, store, tpls)

----------------------------------------------------------------------------
(* Route registration: main.route(rule) with no methods argument.          *)

\* GET by default; HEAD is added to a rule that takes GET, and OPTIONS is
\* answered automatically.
RuleMethods(methods) ==
    methods \cup (IF "GET" \in methods THEN {"HEAD"} ELSE {}) \cup {"OPTIONS"}

route_any_method(rule, view) ==
    [rule |-> rule, endpoint |-> view, methods |-> Methods,
     provide_automatic_options |-> FALSE]

route(rule, view) ==
    [rule |-> rule, endpoint |-> view, methods |-> RuleMethods({"GET"}),
     provide_automatic_options |-> TRUE]

IndexRoute == route(<<"/">>, "index")

KlassementRoute_root == route(<<"/">>, "klassement")

KlassementRoute == route(<<"/", "klassement">>, "klassement")

----------------------------------------------------------------------------
(* URL matching *)

RECURSIVE LStrip(_)
\* path.lstrip("/")
LStrip(p) ==
    IF p # <<>> /\ Head(p) = "/" THEN LStrip(Tail(p)) ELSE p

\* the path the matcher sees: one leading slash, whatever the request had
PathPart(p) == <<"/">> \o LStrip(p)

RECURSIVE MergeSlashes(_)
\* re.sub("/{2,}?", "/", path): each pair of slashes becomes one
MergeSlashes(p) ==
    IF p = <<>> THEN <<>>
    ELSE IF Len(p) >= 2 /\ p[1] = "/" /\ p[2] = "/"
         THEN <<"/">> \o MergeSlashes(SubSeq(p, 3, Len(p)))
         ELSE <<p[1]>> \o MergeSlashes(Tail(p))

RECURSIVE RStrip(_)
RStrip(p) ==
    IF p # <<>> /\ p[Len(p)] = "/" THEN RStrip(SubSeq(p, 1, Len(p) - 1)) ELSE p

\* a rule of fixed segments matches its own path and no other
RuleMatches_lenient(rule, path) == RStrip(rule.rule) = RStrip(path)

RuleMatches(rule, path) == rule.rule = path

Matching(rs, path) == {i \in 1..Len(rs) : RuleMatches(rs[i], path)}

Min(S) == CHOOSE x \in S : \A y \in S : x <= y

\* The outcome of routing a request: the first rule, in registration order,
\* that matches path and method; method-not-allowed when rules match the
\* path alone; a redirect when only the path with merged slashes matches;
\* not-found otherwise.
url_match(rs, method, path) ==
    LET part == PathPart(path)
        byPath == Matching(rs, part)
        full == {i \in byPath : method \in rs[i].methods}
        merged == Matching(rs, MergeSlashes(part))
    IN  IF full # {}
        THEN [kind |-> "rule", rule |-> Min(full), allow |-> {}]
        ELSE IF byPath # {}
        THEN [kind |-> "MethodNotAllowed", rule |-> 0,
              allow |-> UNION {rs[i].methods : i \in byPath}]
        ELSE IF merged # {}
        THEN [kind |-> "RequestRedirect", rule |-> 0, allow |-> {}]
        ELSE [kind |-> "NotFound", rule |-> 0, allow |-> {}]

----------------------------------------------------------------------------
(* Responses *)

Response(status, body, allow) == [status |-> status, body |-> body, allow |-> allow]

\* the response to a request that reaches no view function
RoutingResponse(rs, m) ==
    IF m.kind = "rule"
    THEN Response(200, EmptyBody, rs[m.rule].methods)
    ELSE IF m.kind = "MethodNotAllowed"
    THEN Response(405, ErrorPage("405 Method Not Allowed"), m.allow)
    ELSE IF m.kind = "RequestRedirect"
    THEN Response(308, ErrorPage("308 Permanent Redirect"), {})
    ELSE Response(404, ErrorPage("404 Not Found"), {})

\* the response made of what a view function returned or raised
ViewResponse(v) ==
    IF v.raised
    THEN Response(500, ErrorPage("500 Internal Server Error"), {})
    ELSE Response(200, v.body, {})

\* a HEAD request is answered without a body
Finalize(method, r) ==
    IF method = "HEAD" THEN [r EXCEPT !.body = EmptyBody] ELSE r

----------------------------------------------------------------------------
(* State *)

Loaded == Len(rules) = 2

Init ==
    /\ rules = <<>>
    /\ templates \in SUBSET TemplateNames
    /\ db = <<>>
    /\ pc = [w \in Workers |-> "idle"]
    /\ req = [w \in Workers |-> NoRequest]
    /\ endpoint = [w \in Workers |-> ""]
    /\ resp = [w \in Workers |-> NoResponse]
    /\ calls = [w \in Workers |-> <<>>]
    /\ seen = [r \in GetRequests |-> {}]

\* @main.route('/') def index
RegisterIndex ==
    /\ Len(rules) = 0
    /\ rules' = Append(rules, IndexRoute)
    /\ UNCHANGED <<templates, db, pc, req, endpoint, resp, calls, seen>>

\* @main.route('/klassement') def klassement
RegisterKlassement ==
    /\ Len(rules) = 1
    /\ rules' = Append(rules, KlassementRoute)
    /\ UNCHANGED <<templates, db, pc, req, endpoint, resp, calls, seen>>

Accept(w, r) ==
    /\ pc[w] = "idle"
    /\ pc' = [pc EXCEPT ![w] = "routing"]
    /\ req' = [req EXCEPT ![w] = r]
    /\ UNCHANGED <<rules, templates, db, endpoint, resp, calls, seen>>

\* one request at a time, any method and path
Receive(w) ==
    /\ Loaded
    /\ \A u \in Workers : pc[u] = "idle"
    /\ \E r \in Requests : Accept(w, r)

\* GET requests to the registered paths, while other workers are busy
ReceiveConcurrent(w) ==
    /\ Loaded
    /\ \E r \in GetRequests : Accept(w, r)

\* routing: to a view function, or to the response of the framework
Dispatch(w) ==
    /\ pc[w] = "routing"
    /\ LET m == url_match(rules, req[w].method, req[w].path)
           toView == /\ m.kind = "rule"
                     /\ ~(/\ req[w].method = "OPTIONS"
                          /\ rules[m.rule].provide_automatic_options)
       IN  /\ pc' = [pc EXCEPT ![w] = IF toView THEN "view" ELSE "done"]
           /\ endpoint' = [endpoint EXCEPT ![w] =
                  IF toView THEN rules[m.rule].endpoint ELSE ""]
           /\ resp' = [resp EXCEPT ![w] =
                  IF toView THEN NoResponse
                  ELSE Finalize(req[w].method, RoutingResponse(rules, m))]
    /\ UNCHANGED <<rules, templates, db, req, calls, seen>>

\* the view function runs and its result becomes the response
CallView(w) ==
    /\ pc[w] = "view"
    /\ LET v == view_functions(endpoint[w], req[w], db, templates)
       IN  /\ calls' = [calls EXCEPT ![w] = v.calls]
           /\ db' = db \o v.dbOps
           /\ resp' = [resp EXCEPT ![w] = Finalize(req[w].method, ViewResponse(v))]
    /\ pc' = [pc EXCEPT ![w] = "done"]
    /\ UNCHANGED <<rules, templates, req, endpoint, seen>>

\* the response leaves; the worker is free again
Send(w) ==
    /\ pc[w] = "done"
    /\ seen' = IF req[w] \in GetRequests
               THEN [seen EXCEPT ![req[w]] = @ \cup {resp[w]}]
               ELSE seen
    /\ pc' = [pc EXCEPT ![w] = "idle"]
    /\ req' = [req EXCEPT ![w] = NoRequest]
    /\ endpoint' = [endpoint EXCEPT ![w] = ""]
    /\ resp' = [resp EXCEPT ![w] = NoResponse]
    /\ calls' = [calls EXCEPT ![w] = <<>>]
    /\ UNCHANGED <<rules, templates, db>>

Next ==
    \/ RegisterIndex
    \/ RegisterKlassement
    \/ \E w \in Workers : Receive(w)
    \/ \E w \in Workers : Dispatch(w)
    \/ \E w \in Workers : CallView(w)
    \/ \E w \in Workers : Send(w)

Spec == Init /\ [][Next]_vars

NextConcurrent ==
    \/ RegisterIndex
    \/ RegisterKlassement
    \/ \E w \in Workers : ReceiveConcurrent(w)
    \/ \E w \in Workers : Dispatch(w)
    \/ \E w \in Workers : CallView(w)
    \/ \E w \in Workers : Send(w)

SpecConcurrent == Init /\ [][NextConcurrent]_vars

TypeOK ==
    /\ Len(rules) \in 0..2
    /\ templates \subseteq TemplateNames
    /\ \A w \in Workers :
        /\ pc[w] \in {"idle", "routing", "view", "done"}
        /\ pc[w] = "idle" <=> req[w] = NoRequest
        /\ resp[w].status \in {0, 200, 308, 404, 405, 500}

----------------------------------------------------------------------------
(* Properties *)

Done(w) == pc[w] = "done"

\* the template each registered path is wired to
PageOf(path) == IF path = RootPath THEN "index.html" ELSE "klassement.html"

RendersOk(path) == PageOf(path) \in templates

\* what the Template Renderer gives for the page of a path
Rendered(path) == render_template(templates, PageOf(path), EmptyContext).html

\* every response given so far to GET requests on a path
SeenOn(path) == UNION {seen[r] : r \in {g \in GetRequests : g.path = path}}

GetOkOn(path) ==
    \A w \in Workers :
        (Done(w) /\ req[w].method = "GET" /\ req[w].path = path /\ RendersOk(path))
            => /\ resp[w].status = 200
               /\ resp[w].body = Rendered(path)
               /\ \A r \in SeenOn(path) : r.status = 200 /\ r.body = Rendered(path)

\* C1: a GET to "/" is answered 200 with the rendered "index" page whenever
\* the renderer succeeds, whatever was handled before.
C1_IndexOk == GetOkOn(RootPath)

C1_Witness ==
    \E w \in Workers :
        /\ Done(w) /\ req[w].method = "GET" /\ req[w].path = RootPath
        /\ resp[w].status = 200
        /\ SeenOn(RootPath) # {} /\ SeenOn(KlassementPath) # {}

\* C2: a GET to "/klassement" is answered 200 with the rendered "klassement"
\* page whenever the renderer succeeds, whatever was handled before.
C2_KlassementOk == GetOkOn(KlassementPath)

C2_Witness ==
    \E w \in Workers :
        /\ Done(w) /\ req[w].method = "GET" /\ req[w].path = KlassementPath
        /\ resp[w].status = 200
        /\ SeenOn(RootPath) # {} /\ SeenOn(KlassementPath) # {}

HandlerInvoked(w) == endpoint[w] # "" \/ calls[w] # <<>>

\* C3 as stated: every method other than GET on a registered path is
\* answered method-not-allowed and reaches no handler.
C3_NonGetNotAllowed ==
    \A w \in Workers :
        (Done(w) /\ req[w].method # "GET" /\ req[w].path \in RegisteredPaths)
            => resp[w].status = 405 /\ ~HandlerInvoked(w)

\* C3 amended: on a registered path, a method other than GET, HEAD and
\* OPTIONS is answered method-not-allowed and reaches no handler; HEAD runs
\* the path's handler as GET does and is answered without a body; OPTIONS is
\* answered 200 with the allowed methods and reaches no handler.
C3_MethodsOnRegisteredPaths ==
    \A w \in Workers :
        (Done(w) /\ req[w].path \in RegisteredPaths) =>
            /\ req[w].method \notin {"GET", "HEAD", "OPTIONS"}
                => /\ resp[w].status = 405
                   /\ ~HandlerInvoked(w)
                   /\ resp[w].allow = {"GET", "HEAD", "OPTIONS"}
            /\ req[w].method = "HEAD"
                => /\ endpoint[w] # ""
                   /\ calls[w] = <<RenderCall(PageOf(req[w].path), EmptyContext)>>
                   /\ resp[w].status = (IF RendersOk(req[w].path) THEN 200 ELSE 500)
                   /\ resp[w].body = EmptyBody
            /\ req[w].method = "OPTIONS"
                => /\ resp[w].status = 200
                   /\ ~HandlerInvoked(w)
                   /\ resp[w].allow = {"GET", "HEAD", "OPTIONS"}

C3_Witness ==
    \E w \in Workers :
        /\ Done(w) /\ req[w].method = "DELETE" /\ req[w].path = KlassementPath
        /\ resp[w].status = 405

\* C4 as stated: every path other than "/" and "/klassement" is answered
\* not-found, with no handler invoked and no template rendered.
C4_OtherPathNotFound ==
    \A w \in Workers :
        (Done(w) /\ req[w].path \notin RegisteredPaths)
            => resp[w].status = 404 /\ ~HandlerInvoked(w)

\* C4 amended: every path that, with its leading slashes taken as one, is
\* neither "/" nor "/klassement" is answered not-found for any method, with
\* no handler invoked and no template rendered.
C4_UnmatchedPathNotFound ==
    \A w \in Workers :
        (Done(w) /\ PathPart(req[w].path) \notin RegisteredPaths)
            => resp[w].status = 404 /\ ~HandlerInvoked(w)

C4_Witness ==
    \E w \in Workers :
        /\ Done(w) /\ req[w].path = <<"/", "klassement", "/">>
        /\ req[w].method = "POST"
        /\ resp[w].status = 404

\* C5: identical GET requests to a registered path get identical responses,
\* whatever is handled between them, and handling leaves the state that
\* responses depend on as it was.
C5_Idempotent ==
    /\ \A r \in GetRequests : Cardinality(seen[r]) <= 1
    /\ \A w \in Workers :
        (Done(w) /\ req[w] \in GetRequests) => seen[req[w]] \subseteq {resp[w]}
    /\ db = <<>>

C5_Witness ==
    \E w \in Workers :
        /\ Done(w) /\ req[w] \in GetRequests
        /\ seen[req[w]] = {resp[w]}
        /\ \E r \in GetRequests : r.path # req[w].path /\ seen[r] # {}

\* C6: when the renderer fails with TemplateNotFound on a GET to a
\* registered path, the handler neither retries nor substitutes a body: the
\* response is the server error, never 200, and nothing is left behind that
\* a later request to the path could see.
C6_RenderFailurePropagates ==
    \A w \in Workers :
        (Done(w) /\ req[w] \in GetRequests /\ ~RendersOk(req[w].path)) =>
            /\ resp[w].status = 500
            /\ resp[w].body = ErrorPage("500 Internal Server Error")
            /\ Len(calls[w]) = 1
            /\ db = <<>>
            /\ seen[req[w]] \subseteq {resp[w]}

C6_Witness ==
    \E w \in Workers :
        /\ Done(w) /\ req[w] \in GetRequests /\ ~RendersOk(req[w].path)
        /\ resp[w].status = 500
        /\ seen[req[w]] # {}

RulesFor(method, path) ==
    {i \in 1..Len(rules) : rules[i].rule = path /\ method \in rules[i].methods}

\* C7: no path is registered twice, and once both registrations have run
\* (GET, "/") and (GET, "/klassement") each map to exactly one handler.
C7_OneHandlerPerRoute ==
    /\ \A i, j \in 1..Len(rules) : rules[i].rule = rules[j].rule => i = j
    /\ Loaded => \A p \in RegisteredPaths : Cardinality(RulesFor("GET", p)) = 1

C7_Witness ==
    /\ Loaded
    /\ {rules[i].endpoint : i \in 1..Len(rules)} = {"index", "klassement"}

\* C8: no request invokes an operation on the Data Store, and a handler
\* calls nothing but the Template Renderer, at most once per request.
C8_NoDataStoreUse ==
    /\ db = <<>>
    /\ \A w \in Workers :
        /\ Len(calls[w]) <= 1
        /\ \A i \in 1..Len(calls[w]) : calls[w][i].fn = "render_template"

C8_Witness ==
    \E w \in Workers :
        /\ Done(w) /\ req[w].path = KlassementPath /\ Len(calls[w]) = 1
        /\ \E r \in GetRequests : seen[r] # {}
        /\ db = <<>>

\* the response to a request handled alone, by a freshly loaded application
AloneResponse(r) ==
    LET rs == <<IndexRoute, KlassementRoute>>
        m == url_match(rs, r.method, r.path)
    IN  Finalize(r.method,
            ViewResponse(view_functions(rs[m.rule].endpoint, r, <<>>, templates)))

\* C9: in every interleaving of concurrently handled GET requests to the
\* registered paths, each request gets the response it would get alone, and
\* a request in progress can always take its next step.
C9_ConcurrentAsAlone ==
    \A w \in Workers :
        /\ Done(w) => resp[w] = AloneResponse(req[w])
        /\ pc[w] = "routing" => ENABLED Dispatch(w)
        /\ pc[w] = "view" => ENABLED CallView(w)
        /\ pc[w] = "done" => ENABLED Send(w)

C9_Witness ==
    \E u, w \in Workers :
        /\ u # w
        /\ Done(u) /\ pc[w] = "view"
        /\ req[u].path = req[w].path
        /\ \E r \in GetRequests : seen[r] # {}

\* C10: the response to a GET on a registered path is the same whatever
\* else the request carries, and the handler renders the path's fixed
\* template name with an empty context.
C10_OnlyPathMatters ==
    \A w \in Workers :
        (Done(w) /\ req[w] \in GetRequests) =>
            /\ calls[w] = <<RenderCall(PageOf(req[w].path), EmptyContext)>>
            /\ SeenOn(req[w].path) \subseteq {resp[w]}

C10_Witness ==
    \E w \in Workers :
        /\ Done(w) /\ req[w] \in GetRequests /\ req[w].query = "page=2"
        /\ seen[[req[w] EXCEPT !.query = ""]] # {}

====
